---- MODULE Spec2Model ----
(***************************************************************************)
(* Task-tracking backend (Express + Mongoose): the task store and its      *)
(* write routes, the cookie/JWT session protocol, and the three report     *)
(* endpoints.  Times are milliseconds since the epoch (Date.now()).        *)
(***************************************************************************)
EXTENDS Integers, Sequences, FiniteSets, TLC

VARIABLES tasks, users, teams, projects, tags, calls, jar, stash, now, resp

vars == <<tasks, users, teams, projects, tags, calls, jar, stash, now, resp>>

(***************************************************************************)
(* Bounds of the model.                                                    *)
(***************************************************************************)
\* number of task documents the task store may come to hold
MaxTasks == 2
\* last clock reading of the task-store specification (it starts at 1)
MaxTime == 2

(***************************************************************************)
(* models/Task.js                                                          *)
(***************************************************************************)
\* the status enum of taskSchema
Statuses == {"To Do", "In Progress", "Completed", "Blocked"}

\* a Date field that is undefined (or null)
NoDate == 0 - 1

\* no response yet
NoResp == [route |-> "none", status |-> 0]

\* the paths of a task document a request body may carry here
BodyFields == {"status", "completedAt", "isActive"}

\* status strings a client may send: the enum and one value outside it
BodyStatuses == Statuses \cup {"Done"}

\* Date values a client may send: one, earlier than every clock reading
BodyDates == {0}

\* JSON request bodies: `has` are the keys present; an absent key carries a
\* fixed filler so that every body is listed once
Bodies ==
  { b \in [has : SUBSET BodyFields, status : BodyStatuses,
           completedAt : BodyDates \cup {NoDate}, isActive : BOOLEAN] :
      /\ ("status" \notin b.has => b.status = "To Do")
      /\ ("completedAt" \notin b.has => b.completedAt = NoDate)
      /\ ("isActive" \notin b.has => b.isActive = TRUE) }

\* schema validation of the paths a body sets: the enum validator of status
\* (null/undefined are not offered for status here)
ValidBody(b) == "status" \in b.has => b.status \in Statuses

\* a new document: schema defaults, overwritten by the keys of the body; the
\* required paths (timeToComplete, team, project, owners) come with the body
NewTask(b) ==
  [status      |-> IF "status" \in b.has THEN b.status ELSE "To Do",
   completedAt |-> IF "completedAt" \in b.has THEN b.completedAt ELSE NoDate,
   isActive    |-> IF "isActive" \in b.has THEN b.isActive ELSE TRUE,
   timeToComplete |-> 1, team |-> 1, project |-> 1, owners |-> <<1>>]

\* taskSchema.pre("save"): statusModified is this.isModified("status"),
\* t is new Date()
PreSave(doc, statusModified, t) ==
  IF statusModified
  THEN IF doc.status = "Completed" /\ doc.completedAt = NoDate
       THEN [doc EXCEPT !.completedAt = t]
       ELSE IF doc.status # "Completed"
            THEN [doc EXCEPT !.completedAt = NoDate]
            ELSE doc
  ELSE doc

\* Task.create(taskData): build the document, validate, run the save hook.
\* A path set from the body is marked modified; a path that only got its
\* schema default is not.
TaskCreate(b, t) == PreSave(NewTask(b), "status" \in b.has, t)

\* Task.findByIdAndUpdate(id, body): $set of the body's keys on the stored
\* document; query middleware only, the save hook does not run
ApplyUpdate(doc, b) ==
  [doc EXCEPT
     !.status      = IF "status" \in b.has THEN b.status ELSE @,
     !.completedAt = IF "completedAt" \in b.has THEN b.completedAt ELSE @,
     !.isActive    = IF "isActive" \in b.has THEN b.isActive ELSE @]

\* Task.findById(id): the document, found or not
Found(id) == id \in DOMAIN tasks

(***************************************************************************)
(* Task routes (after verifyToken has called next())                       *)
(***************************************************************************)
\* POST /api/tasks
PostTask(b) ==
  /\ Len(tasks) < MaxTasks
  /\ IF ValidBody(b)
     THEN /\ tasks' = Append(tasks, TaskCreate(b, now))
          /\ resp' = [route |-> "POST /api/tasks", status |-> 201]
     ELSE /\ tasks' = tasks
          /\ resp' = [route |-> "POST /api/tasks", status |-> 500]
  /\ UNCHANGED <<tags, calls, users, teams, projects, jar, stash, now>>

\* PUT /api/tasks/:id
PutTask(id, b) ==
  /\ IF ~Found(id) \/ ~tasks[id].isActive
     THEN /\ tasks' = tasks
          /\ resp' = [route |-> "PUT /api/tasks/:id", status |-> 404]
     ELSE IF ValidBody(b)
          THEN /\ tasks' = [tasks EXCEPT ![id] = ApplyUpdate(tasks[id], b)]
               /\ resp' = [route |-> "PUT /api/tasks/:id", status |-> 200]
          ELSE /\ tasks' = tasks
               /\ resp' = [route |-> "PUT /api/tasks/:id", status |-> 500]
  /\ UNCHANGED <<tags, calls, users, teams, projects, jar, stash, now>>

\* DELETE /api/tasks/:id
DeleteTask(id) ==
  /\ IF ~Found(id) \/ ~tasks[id].isActive
     THEN /\ tasks' = tasks
          /\ resp' = [route |-> "DELETE /api/tasks/:id", status |-> 404]
     ELSE /\ tasks' = [tasks EXCEPT ![id].isActive = FALSE]
          /\ resp' = [route |-> "DELETE /api/tasks/:id", status |-> 200]
  /\ UNCHANGED <<tags, calls, users, teams, projects, jar, stash, now>>

\* the wall clock advances
Tick ==
  /\ now < MaxTime
  /\ now' = now + 1
  /\ UNCHANGED <<tags, calls, tasks, users, teams, projects, jar, stash, resp>>

Init ==
  /\ tasks = <<>>
  /\ users = <<>>
  /\ teams = <<>>
  /\ projects = <<>>
  /\ tags = <<>>
  /\ calls = <<>>
  /\ jar = <<>>
  /\ stash = <<>>
  /\ now = 1
  /\ resp = NoResp

Next ==
  \/ \E b \in Bodies : PostTask(b)
  \/ \E id \in 1 .. MaxTasks, b \in Bodies : PutTask(id, b)
  \/ \E id \in 1 .. MaxTasks : DeleteTask(id)
  \/ Tick

Spec == Init /\ [][Next]_vars

(***************************************************************************)
(* Session protocol: JWT pair in two cookies (server file, lines 40-279)   *)
(***************************************************************************)
\* sub-second clock steps the session specification takes before the jumps
\* to the token expiries
MaxSubSteps == 2
\* user documents the store may hold
MaxUsers == 1

MsPerSec == 1000
\* expiresIn: "15m" and "7d", in seconds (jsonwebtoken counts seconds)
AccessTtl == 15 * 60
RefreshTtl == 7 * 24 * 60 * 60
\* maxAge of the two cookies, in milliseconds
AccessMaxAge == 15 * 60 * 1000
RefreshMaxAge == 7 * 24 * 60 * 60 * 1000

\* clock values of the session specification: half-second steps, then the
\* instants at which the first tokens' lifetimes end
Instants ==
  {k * (MsPerSec \div 2) : k \in 0 .. MaxSubSteps}
    \cup {AccessMaxAge, RefreshMaxAge}

\* no cookie of that name on the request (or the empty string): falsy
NoToken == [sig |-> "none", id |-> 0, username |-> "-", iat |-> 0, exp |-> 0]

\* req.user before the gate has set it
NoClaims == [id |-> 0, username |-> "-"]

RefreshPath == "/api/auth/refresh-token"

\* jwt.sign(payload, secret, {expiresIn}): HS256 is deterministic, so a token
\* is its payload, its iat/exp (seconds) and the secret that signed it
JwtSign(id, username, secret, ttl, t) ==
  [sig |-> secret, id |-> id, username |-> username,
   iat |-> t \div MsPerSec, exp |-> (t \div MsPerSec) + ttl]

\* jwt.verify(token, secret): the signature must be by `secret` and the clock
\* (seconds) must be before exp
JwtVerify(tok, secret, t) == tok.sig = secret /\ (t \div MsPerSec) < tok.exp

\* faulty variant of generateTokens: the access token is stamped with the
\* clock of process start instead of the clock of the call
GenerateTokensStale(id, user, t) ==
  [accessToken  |-> JwtSign(id, IF user.username # "" THEN user.username
                                ELSE user.email, "JWT_SECRET", AccessTtl, 0),
   refreshToken |-> JwtSign(id, "-", "REFRESH_TOKEN_SECRET", RefreshTtl, t)]

\* generateTokens(user) with the clock reading t; id is user._id
GenerateTokens(id, user, t) ==
  [accessToken  |-> JwtSign(id, IF user.username # "" THEN user.username
                                ELSE user.email, "JWT_SECRET", AccessTtl, t),
   refreshToken |-> JwtSign(id, "-", "REFRESH_TOKEN_SECRET", RefreshTtl, t)]

\* setAuthCookies: the Set-Cookie headers (res.cookie defaults path to "/")
SetAuthCookies(accessToken, refreshToken) ==
  << [name |-> "access_token", value |-> accessToken, path |-> "/",
      maxAge |-> AccessMaxAge],
     [name |-> "refresh_token", value |-> refreshToken, path |-> RefreshPath,
      maxAge |-> RefreshMaxAge] >>

\* faulty variant of clearAuthCookies: the refresh cookie is cleared without
\* its path option
ClearAuthCookiesRootPath ==
  << [name |-> "access_token", value |-> NoToken, path |-> "/", maxAge |-> 0],
     [name |-> "refresh_token", value |-> NoToken, path |-> "/",
      maxAge |-> 0] >>

\* clearAuthCookies
ClearAuthCookies ==
  << [name |-> "access_token", value |-> NoToken, path |-> "/", maxAge |-> 0],
     [name |-> "refresh_token", value |-> NoToken, path |-> RefreshPath,
      maxAge |-> 0] >>

\* faulty variant of verifyToken: the signature is checked, exp is not
VerifyTokenNoExpiry(cookies, t) ==
  IF cookies.access_token = NoToken
  THEN [ok |-> FALSE, status |-> 403, user |-> NoClaims]
  ELSE IF cookies.access_token.sig = "JWT_SECRET"
       THEN [ok |-> TRUE, status |-> 0,
             user |-> [id |-> cookies.access_token.id,
                       username |-> cookies.access_token.username]]
       ELSE [ok |-> FALSE, status |-> 403, user |-> NoClaims]

\* verifyToken(req, res, next): ok means next() was called
VerifyToken(cookies, t) ==
  IF cookies.access_token = NoToken
  THEN [ok |-> FALSE, status |-> 403, user |-> NoClaims]
  ELSE IF JwtVerify(cookies.access_token, "JWT_SECRET", t)
       THEN [ok |-> TRUE, status |-> 0,
             user |-> [id |-> cookies.access_token.id,
                       username |-> cookies.access_token.username]]
       ELSE [ok |-> FALSE, status |-> 403, user |-> NoClaims]

(***************************************************************************)
(* The user collection (User.findOne / findById / save)                    *)
(***************************************************************************)
Usernames == {"ann", "bob"}
Emails == {"a@x.io", "b@x.io"}
\* one password of 8 characters or more, one shorter
Passwords == {"correct-horse", "short"}

\* bcrypt.hash / bcrypt.compare
Hash(p) == <<"bcrypt", p>>
Compare(p, h) == h = Hash(p)

\* the regular expression of the register route
EmailOk(e) == e \in Emails

\* User.findById(id): documents removed from the collection are not found
UserFound(id) == id \in DOMAIN users /\ ~users[id].removed

\* faulty variant of the lookup: the filter names the username alone
FindOneUserByUsername(u, e) ==
  LET hits == {i \in DOMAIN users :
                 ~users[i].removed /\ users[i].username = u}
  IN  IF hits = {} THEN 0 ELSE CHOOSE i \in hits : \A j \in hits : i <= j

\* User.findOne({$or: [{username: u}, {email: e}]}): the first match in
\* natural order, 0 when there is none
FindOneUser(u, e) ==
  LET hits == {i \in DOMAIN users :
                 ~users[i].removed
                 /\ (users[i].username = u \/ users[i].email = e)}
  IN  IF hits = {} THEN 0 ELSE CHOOSE i \in hits : \A j \in hits : i <= j

NewUser(u, e, p) ==
  [username |-> u, email |-> e, name |-> "Ann B", password |-> Hash(p),
   isActive |-> TRUE, removed |-> FALSE]

(***************************************************************************)
(* The HTTP exchange: request cookies in, status and Set-Cookie out        *)
(***************************************************************************)
NoCookies == [access_token |-> NoToken, refresh_token |-> NoToken]

\* req.body of a request that has none of the fields read here
NoForm == [username |-> "-", email |-> "-"]

\* form is the req.body and message the message of the JSON answer; both
\* are recorded for the register route only
Exchange(route, via, cookies, status, ran, user, setCookies) ==
  [route |-> route, via |-> via, at |-> now, req |-> cookies,
   form |-> NoForm, status |-> status, ran |-> ran, user |-> user,
   cookies |-> setCookies, message |-> "-"]

\* a cookie applies to a request path when its path is a prefix of it
PathMatch(cookiePath, reqPath) == cookiePath = "/" \/ cookiePath = reqPath

\* the browser's cookie store, keyed by (name, path): what it sends to path
CookieFor(name, reqPath, t) ==
  LET hits == {c \in jar : c.name = name /\ PathMatch(c.path, reqPath)
                           /\ t < c.expires}
  IN  IF hits = {} THEN NoToken ELSE (CHOOSE c \in hits : TRUE).value

BrowserCookies(reqPath, t) ==
  [access_token |-> CookieFor("access_token", reqPath, t),
   refresh_token |-> CookieFor("refresh_token", reqPath, t)]

\* the browser storing one Set-Cookie header: it replaces the cookie of the
\* same name and path; Max-Age=0 removes it
StoreCookie(j, c, t) ==
  LET rest == {d \in j : ~(d.name = c.name /\ d.path = c.path)}
  IN  IF c.maxAge <= 0 THEN rest
      ELSE rest \cup {[name |-> c.name, path |-> c.path, value |-> c.value,
                       expires |-> t + c.maxAge]}

RECURSIVE StoreCookies(_, _, _)
StoreCookies(j, cs, t) ==
  IF cs = <<>> THEN j
  ELSE StoreCookies(StoreCookie(j, Head(cs), t), Tail(cs), t)

\* the last token pair the browser was handed, kept by a client that never
\* drops cookies (tokens are stateless: clearing a cookie revokes nothing)
NoStash == [accessToken |-> NoToken, refreshToken |-> NoToken, at |-> 0]

Remember(cs, t) ==
  IF Len(cs) = 2 /\ cs[1].value # NoToken
  THEN [accessToken |-> cs[1].value, refreshToken |-> cs[2].value, at |-> t]
  ELSE stash

\* a token with its signature broken
Tamper(tok) == [tok EXCEPT !.sig = "bad"]

\* what a client that keeps its own copies can put in a cookie
RawTokens ==
  {NoToken} \cup
  (IF stash = NoStash THEN {}
   ELSE {stash.accessToken, stash.refreshToken,
         Tamper(stash.accessToken), Tamper(stash.refreshToken)})

(***************************************************************************)
(* Routes                                                                  *)
(***************************************************************************)
R(method, path) == [method |-> method, path |-> path]

\* the routes registered with verifyToken as their first middleware
GatedRoutes ==
  {R("GET", "/api/auth/user"), R("GET", "/api/users"),
   R("GET", "/api/users/:id"), R("GET", "/api/tasks"),
   R("GET", "/api/tasks/:id"), R("POST", "/api/tasks"),
   R("PUT", "/api/tasks/:id"), R("DELETE", "/api/tasks/:id"),
   R("GET", "/api/teams"), R("POST", "/api/teams"),
   R("GET", "/api/projects"), R("POST", "/api/projects"),
   R("GET", "/api/tags"), R("POST", "/api/tags"),
   R("GET", "/api/reports/last-week"), R("GET", "/api/reports/pending"),
   R("GET", "/api/reports/closed-tasks")}

RegisterRoute == R("POST", "/api/auth/register")
LoginRoute == R("POST", "/api/auth/login")
LogoutRoute == R("POST", "/api/auth/logout")
RefreshRoute == R("POST", RefreshPath)

\* no exchange in progress
NoExchange ==
  [route |-> R("-", "-"), via |-> "-", at |-> 0, req |-> NoCookies,
   form |-> NoForm, status |-> 0, ran |-> FALSE, user |-> NoClaims,
   cookies |-> <<>>, message |-> "-"]

\* app.<method>(path, verifyToken, handler): the gate, then the handler.
\* GET /api/auth/user looks the caller up; the resource and report handlers
\* are left at "ran, 200" here (their store work is the other
\* specifications' subject).
GatedExchange(route, via, cookies) ==
  LET g == VerifyToken(cookies, now)
  IN  IF ~g.ok
      THEN Exchange(route, via, cookies, g.status, FALSE, NoClaims, <<>>)
      ELSE IF route = R("GET", "/api/auth/user") /\ ~UserFound(g.user.id)
           THEN Exchange(route, via, cookies, 404, TRUE, g.user, <<>>)
           ELSE Exchange(route, via, cookies, 200, TRUE, g.user, <<>>)

\* app.post("/api/auth/refresh-token")
RefreshExchange(via, cookies) ==
  LET refreshToken == cookies.refresh_token
  IN  IF refreshToken = NoToken
      THEN Exchange(RefreshRoute, via, cookies, 401, TRUE, NoClaims, <<>>)
      ELSE IF ~JwtVerify(refreshToken, "REFRESH_TOKEN_SECRET", now)
           THEN Exchange(RefreshRoute, via, cookies, 500, TRUE, NoClaims, <<>>)
           ELSE IF ~UserFound(refreshToken.id)
                THEN Exchange(RefreshRoute, via, cookies, 401, TRUE, NoClaims,
                              <<>>)
                ELSE LET tokens == GenerateTokens(refreshToken.id,
                                                  users[refreshToken.id], now)
                     IN  Exchange(RefreshRoute, via, cookies, 200, TRUE,
                                  NoClaims,
                                  SetAuthCookies(tokens.accessToken,
                                                 tokens.refreshToken))

\* app.post("/api/auth/register"); name is always supplied here
RegisterExchange(u, e, p) ==
  LET cookies == BrowserCookies(RegisterRoute.path, now)
      id == Len(users) + 1
      existingUser == FindOneUser(u, e)
      Answer(status, message, setCookies) ==
        [Exchange(RegisterRoute, "browser", cookies, status, TRUE, NoClaims,
                  setCookies)
           EXCEPT !.form = [username |-> u, email |-> e],
                  !.message = message]
  IN  IF u = "" \/ e = "" \/ p = ""
      THEN Answer(400, "Please provide all required fields", <<>>)
      ELSE IF ~EmailOk(e)
      THEN Answer(400, "Please provide a valid email address", <<>>)
      ELSE IF Len(p) < 8
      THEN Answer(400, "Password must be at least 8 characters long", <<>>)
      ELSE IF existingUser # 0
      THEN Answer(400, IF users[existingUser].username = u
                       THEN "Username already exists"
                       ELSE "Email already exists", <<>>)
      ELSE LET tokens == GenerateTokens(id, NewUser(u, e, p), now)
           IN  Answer(201, "User registered successfully",
                      SetAuthCookies(tokens.accessToken, tokens.refreshToken))

\* app.post("/api/auth/login"): username may be the username or the email
LoginExchange(u, p) ==
  LET cookies == BrowserCookies(LoginRoute.path, now)
      id == FindOneUser(u, u)
  IN  IF u = "" \/ p = ""
      THEN Exchange(LoginRoute, "browser", cookies, 400, TRUE, NoClaims, <<>>)
      ELSE IF id = 0 \/ ~Compare(p, users[id].password)
           THEN Exchange(LoginRoute, "browser", cookies, 401, TRUE, NoClaims,
                         <<>>)
           ELSE LET tokens == GenerateTokens(id, users[id], now)
                IN  Exchange(LoginRoute, "browser", cookies, 200, TRUE,
                             NoClaims,
                             SetAuthCookies(tokens.accessToken,
                                            tokens.refreshToken))

(***************************************************************************)
(* Requests of the session specification.  A browser request carries the   *)
(* cookies its store holds for the path and stores the Set-Cookie headers  *)
(* of the response; a raw request carries any token the client kept.       *)
(* Requests are taken one at a time: the next starts once the response of  *)
(* the last has been read.                                                 *)
(***************************************************************************)
Idle == resp = NoExchange

Deliver ==
  /\ jar' = StoreCookies(jar, resp'.cookies, now)
  /\ stash' = Remember(resp'.cookies, now)

\* the register request, in a store that may come to hold max users
RegisterUpTo(u, e, p, max) ==
  /\ Idle
  /\ resp' = RegisterExchange(u, e, p)
  /\ (resp'.status = 201 => Len(users) < max)
  /\ users' = IF resp'.status = 201 THEN Append(users, NewUser(u, e, p))
              ELSE users
  /\ Deliver
  /\ UNCHANGED <<tags, calls, tasks, teams, projects, now>>

Register(u, e, p) == RegisterUpTo(u, e, p, MaxUsers)

Login(u, p) ==
  /\ Idle
  /\ resp' = LoginExchange(u, p)
  /\ Deliver
  /\ UNCHANGED <<tags, calls, tasks, users, teams, projects, now>>

\* app.post("/api/auth/logout")
Logout ==
  /\ Idle
  /\ resp' = Exchange(LogoutRoute, "browser",
                      BrowserCookies(LogoutRoute.path, now), 200, TRUE,
                      NoClaims, ClearAuthCookies)
  /\ Deliver
  /\ UNCHANGED <<tags, calls, tasks, users, teams, projects, now>>

Refresh ==
  /\ Idle
  /\ resp' = RefreshExchange("browser", BrowserCookies(RefreshPath, now))
  /\ Deliver
  /\ UNCHANGED <<tags, calls, tasks, users, teams, projects, now>>

Gated(route) ==
  /\ Idle
  /\ resp' = GatedExchange(route, "browser", BrowserCookies(route.path, now))
  /\ Deliver
  /\ UNCHANGED <<tags, calls, tasks, users, teams, projects, now>>

RawGated(route, tok) ==
  /\ Idle
  /\ resp' = GatedExchange(route, "raw",
                           [access_token |-> tok, refresh_token |-> NoToken])
  /\ UNCHANGED <<tags, calls, tasks, users, teams, projects, jar, stash, now>>

RawRefresh(tok) ==
  /\ Idle
  /\ resp' = RefreshExchange("raw", [access_token |-> NoToken,
                                     refresh_token |-> tok])
  /\ UNCHANGED <<tags, calls, tasks, users, teams, projects, jar, stash, now>>

\* the store outside the API: a user document is removed, or deactivated
RemoveUser(id) ==
  /\ Idle
  /\ UserFound(id)
  /\ users' = [users EXCEPT ![id].removed = TRUE]
  /\ resp' = NoExchange
  /\ UNCHANGED <<tags, calls, tasks, teams, projects, jar, stash, now>>

DeactivateUser(id) ==
  /\ Idle
  /\ UserFound(id) /\ users[id].isActive
  /\ users' = [users EXCEPT ![id].isActive = FALSE]
  /\ resp' = NoExchange
  /\ UNCHANGED <<tags, calls, tasks, teams, projects, jar, stash, now>>

\* the wall clock advances to a later instant; the browser drops the cookies
\* whose Max-Age has run out
AuthTick ==
  /\ Idle
  /\ \E t \in Instants : t > now /\ now' = t
  /\ jar' = {c \in jar : now' < c.expires}
  /\ resp' = NoExchange
  /\ UNCHANGED <<tags, calls, tasks, users, teams, projects, stash>>

\* the client has read the response; the next request can start
Settle ==
  /\ ~Idle
  /\ resp' = NoExchange
  /\ UNCHANGED <<tags, calls, tasks, users, teams, projects, jar, stash, now>>

InitAuth ==
  /\ tasks = <<>>
  /\ users = <<>>
  /\ teams = <<>>
  /\ projects = <<>>
  /\ tags = <<>>
  /\ calls = <<>>
  /\ jar = {}
  /\ stash = NoStash
  /\ now = 0
  /\ resp = NoExchange

NextAuth ==
  \/ \E u \in Usernames \cup {""}, e \in Emails \cup {"nobody"},
        p \in Passwords : Register(u, e, p)
  \/ \E u \in Usernames \cup Emails \cup {""}, p \in Passwords : Login(u, p)
  \/ Logout
  \/ Refresh
  \/ \E route \in GatedRoutes : Gated(route)
  \/ \E route \in GatedRoutes, tok \in RawTokens : RawGated(route, tok)
  \/ \E tok \in RawTokens : RawRefresh(tok)
  \/ \E id \in 1 .. MaxUsers : RemoveUser(id)
  \/ \E id \in 1 .. MaxUsers : DeactivateUser(id)
  \/ AuthTick
  \/ Settle

SpecAuth == InitAuth /\ [][NextAuth]_vars

(***************************************************************************)
(* Registrations one after another, in a store with room for several       *)
(* users                                                                   *)
(***************************************************************************)
\* user documents the store of this specification may come to hold
MaxRegistered == 2

NextRegister ==
  \/ \E u \in Usernames \cup {""}, e \in Emails \cup {"nobody"},
        p \in Passwords : RegisterUpTo(u, e, p, MaxRegistered)
  \/ \E id \in 1 .. MaxRegistered : DeactivateUser(id)
  \/ Settle

SpecRegister == InitAuth /\ [][NextRegister]_vars

(***************************************************************************)
(* Report routes (server file, lines 771-919)                              *)
(***************************************************************************)
\* task documents in the stores the report specifications start from
MaxWeekTasks == 2
MaxPendingTasks == 3
MaxClosedTasks == 2
\* largest timeToComplete, in whole days
MaxDays == 2
\* the day (since the epoch) on which the reports are asked for
Today == 8

MsPerDay == 24 * 60 * 60 * 1000

\* moment(t).startOf("day"), .endOf("day"), .subtract(n, "days") and
\* .format("YYYY-MM-DD"); a date string is written as the number of its day
StartOfDay(t) == (t \div MsPerDay) * MsPerDay
EndOfDay(t) == StartOfDay(t) + MsPerDay - 1
SubtractDays(t, n) == t - n * MsPerDay
FormatDate(t) == t \div MsPerDay

\* Task.find(filter): the ids of the documents the filter matches, in store
\* order
FindTasks(matching) ==
  SelectSeq([i \in 1 .. Len(tasks) |-> i], LAMBDA i : i \in matching)

\* .populate(path, "name") of one reference: the document, or null (0)
Populate(store, ref) == IF ref \in DOMAIN store THEN ref ELSE 0

\* .populate("owners", "name"): references that resolve to no document are
\* dropped from the array
PopulateAll(store, refs) == SelectSeq(refs, LAMBDA r : r \in DOMAIN store)

\* app.get("/api/reports/last-week") at clock reading t
LastWeekReport(t) ==
  LET oneWeekAgo == StartOfDay(SubtractDays(t, 7))
      endOfToday == EndOfDay(t)
      completedTasks ==
        FindTasks({i \in DOMAIN tasks :
                     /\ tasks[i].status = "Completed"
                     /\ tasks[i].completedAt # NoDate
                     /\ tasks[i].completedAt >= oneWeekAgo
                     /\ tasks[i].completedAt <= endOfToday
                     /\ tasks[i].isActive})
      \* for (i = 6; i >= 0; i--): the keys in insertion order
      dates == [k \in 1 .. 7 |-> FormatDate(SubtractDays(t, 7 - k))]
      hits(date) ==
        Cardinality({j \in 1 .. Len(completedTasks) :
                       FormatDate(tasks[completedTasks[j]].completedAt) = date})
  IN  [totalCompleted |-> Len(completedTasks),
       dailyStats |-> [k \in 1 .. 7 |-> [date |-> dates[k],
                                        count |-> hits(dates[k])]],
       tasks |-> completedTasks]

\* an exact quotient a / b; b = 0 is NaN
Ratio(a, b) == [num |-> a, den |-> b]

RECURSIVE SumDays(_)
SumDays(ids) ==
  IF ids = <<>> THEN 0
  ELSE tasks[Head(ids)].timeToComplete + SumDays(Tail(ids))

\* faulty variant of the pending report: the average is divided out without
\* the length test
PendingReportNoGuard ==
  LET pendingTasks ==
        FindTasks({i \in DOMAIN tasks :
                     tasks[i].status # "Completed" /\ tasks[i].isActive})
      totalPendingDays == SumDays(pendingTasks)
      seen == {tasks[pendingTasks[j]].status : j \in 1 .. Len(pendingTasks)}
      of(st) == SelectSeq(pendingTasks, LAMBDA i : tasks[i].status = st)
  IN  [totalPendingTasks |-> Len(pendingTasks),
       totalPendingDays |-> totalPendingDays,
       statusStats |-> [st \in seen |-> [count |-> Len(of(st)),
                                         totalDays |-> SumDays(of(st))]],
       averageDaysPerTask |-> Ratio(totalPendingDays, Len(pendingTasks))]

\* app.get("/api/reports/pending")
PendingReport ==
  LET pendingTasks ==
        FindTasks({i \in DOMAIN tasks :
                     tasks[i].status # "Completed" /\ tasks[i].isActive})
      totalPendingDays == SumDays(pendingTasks)
      seen == {tasks[pendingTasks[j]].status : j \in 1 .. Len(pendingTasks)}
      of(st) == SelectSeq(pendingTasks, LAMBDA i : tasks[i].status = st)
  IN  [totalPendingTasks |-> Len(pendingTasks),
       totalPendingDays |-> totalPendingDays,
       statusStats |-> [st \in seen |-> [count |-> Len(of(st)),
                                         totalDays |-> SumDays(of(st))]],
       averageDaysPerTask |->
         IF Len(pendingTasks) > 0
         THEN Ratio(totalPendingDays, Len(pendingTasks))
         ELSE Ratio(0, 1)]

\* The grouped counts are kept in a plain object literal ({}), a sequence of
\* own properties here.  Reading a key that is no own property falls through
\* to Object.prototype.
ObjectPrototypeKeys ==
  {"constructor", "toString", "toLocaleString", "valueOf", "hasOwnProperty",
   "isPrototypeOf", "propertyIsEnumerable"}

\* a property holding NaN (JSON: null)
NaN == 0 - 1

Own(obj, key) == {k \in 1 .. Len(obj) : obj[k].key = key}

\* if (!groupedStats[key]) groupedStats[key] = 0;  groupedStats[key]++;
\* An inherited function is truthy, so the count is not started at 0 and the
\* increment of a function is NaN; NaN is falsy, so the next one restarts it.
Increment(obj, key) ==
  IF Own(obj, key) # {}
  THEN LET k == CHOOSE k \in Own(obj, key) : TRUE
       IN  [obj EXCEPT ![k].value = IF @ = NaN THEN 1 ELSE @ + 1]
  ELSE IF key \in ObjectPrototypeKeys
       THEN Append(obj, [key |-> key, value |-> NaN])
       ELSE Append(obj, [key |-> key, value |-> 1])

RECURSIVE IncrementAll(_, _)
IncrementAll(obj, keys) ==
  IF keys = <<>> THEN obj
  ELSE IncrementAll(Increment(obj, Head(keys)), Tail(keys))

\* task.team?.name || "Unassigned"
NameOrUnassigned(store, ref) ==
  IF Populate(store, ref) = 0 THEN "Unassigned" ELSE store[ref].name

\* the names of the populated owners of the listed tasks, in forEach order
RECURSIVE OwnerNames(_)
OwnerNames(ids) ==
  IF ids = <<>> THEN <<>>
  ELSE LET owners == PopulateAll(users, tasks[Head(ids)].owners)
       IN  [k \in 1 .. Len(owners) |-> users[owners[k]].name]
             \o OwnerNames(Tail(ids))

\* app.get("/api/reports/closed-tasks"); groupBy is req.query.groupBy
\* ("-": absent, so "team")
ClosedTasksReport(groupByQuery) ==
  LET groupBy == IF groupByQuery = "-" THEN "team" ELSE groupByQuery
      completedTasks ==
        FindTasks({i \in DOMAIN tasks :
                     tasks[i].status = "Completed" /\ tasks[i].isActive})
      n == Len(completedTasks)
      keys ==
        IF groupBy = "team"
        THEN [k \in 1 .. n |-> NameOrUnassigned(teams,
                                                tasks[completedTasks[k]].team)]
        ELSE IF groupBy = "owner"
        THEN OwnerNames(completedTasks)
        ELSE IF groupBy = "project"
        THEN [k \in 1 .. n |->
                NameOrUnassigned(projects, tasks[completedTasks[k]].project)]
        ELSE <<>>
  IN  [groupBy |-> groupBy, totalCompleted |-> n,
       stats |-> IncrementAll(<<>>, keys)]

(***************************************************************************)
(* The report specifications: a store the write routes can leave behind,   *)
(* and the report asked of it                                              *)
(***************************************************************************)
TaskDoc(st, c, a, d, tm, pr, ow) ==
  [status |-> st, completedAt |-> c, isActive |-> a, timeToComplete |-> d,
   team |-> tm, project |-> pr, owners |-> ow]

SeqsUpTo(S, n) == UNION {[1 .. k -> S] : k \in 0 .. n}

\* an ObjectId that names no document of any collection
DanglingRef == 3 * 3

TeamDocs == <<[name |-> "Alpha"], [name |-> "Beta"]>>
ProjectDocs == <<[name |-> "Apollo"], [name |-> "constructor"]>>
UserDocs ==
  << [NewUser("ann", "a@x.io", "correct-horse") EXCEPT !.name = "Ann"],
     [NewUser("bob", "b@x.io", "correct-horse") EXCEPT !.name = "Bob"] >>

\* completion times around the report window: the first and the last
\* millisecond of tomorrow, today, and 6, 7 and 8 days ago
WeekDates ==
  {(Today - k) * MsPerDay + o : k \in {0 - 1, 0, 6, 7, 8},
                                o \in {0, MsPerDay - 1}}

WeekTasks ==
  {TaskDoc(st, c, a, 1, 1, 1, <<1>>) :
     st \in {"Completed", "To Do"}, c \in WeekDates \cup {NoDate},
     a \in BOOLEAN}

PendingTasks ==
  {TaskDoc(st, IF st = "Completed" THEN Today * MsPerDay ELSE NoDate, a, d,
           1, 1, <<1>>) :
     st \in Statuses, a \in BOOLEAN, d \in 1 .. MaxDays}

ClosedTasks ==
  {TaskDoc(st, IF st = "Completed" THEN Today * MsPerDay ELSE NoDate, a, 1,
           tm, pr, ow) :
     st \in {"Completed", "In Progress"}, a \in BOOLEAN,
     tm \in {1, DanglingRef}, pr \in {1, 2, DanglingRef},
     ow \in {<<1>>, <<1, 2>>, <<1, DanglingRef>>}}

\* req.query.groupBy: absent, the three dimensions, and another word
GroupByQueries == {"-", "team", "owner", "project", "priority"}

InitStore(docs, n) ==
  /\ tasks \in SeqsUpTo(docs, n)
  /\ users = UserDocs
  /\ teams = TeamDocs
  /\ projects = ProjectDocs
  /\ tags = <<>>
  /\ calls = <<>>
  /\ jar = {}
  /\ stash = NoStash
  /\ resp = NoResp

Report(route, data) ==
  /\ resp' = [route |-> route, status |-> 200, data |-> data]
  /\ UNCHANGED <<tags, calls, tasks, users, teams, projects, jar, stash, now>>

GetLastWeek == Report("GET /api/reports/last-week", LastWeekReport(now))

GetPending == Report("GET /api/reports/pending", PendingReport)

GetClosedTasks(g) ==
  Report("GET /api/reports/closed-tasks", ClosedTasksReport(g))

InitLastWeek ==
  /\ InitStore(WeekTasks, MaxWeekTasks)
  /\ now \in {Today * MsPerDay + o : o \in {0, MsPerDay \div 2, MsPerDay - 1}}

NextLastWeek == GetLastWeek

SpecLastWeek == InitLastWeek /\ [][NextLastWeek]_vars

InitPending ==
  /\ InitStore(PendingTasks, MaxPendingTasks)
  /\ now = Today * MsPerDay

NextPending == GetPending

SpecPending == InitPending /\ [][NextPending]_vars

InitClosed ==
  /\ InitStore(ClosedTasks, MaxClosedTasks)
  /\ now = Today * MsPerDay

NextClosed == \E g \in GroupByQueries : GetClosedTasks(g)

SpecClosed == InitClosed /\ [][NextClosed]_vars

(***************************************************************************)
(* The task read routes, and the specification of the task store under     *)
(* sequential requests: every write route and every read route             *)
(***************************************************************************)
\* limit = 10 of req.query
DefaultLimit == 10

\* faulty variant of the list filter: it starts from {} instead of
\* {isActive: true}
TaskFilterAnyActivity(status) ==
  {i \in DOMAIN tasks : status = "-" \/ tasks[i].status = status}

\* const filter = { isActive: true }; if (status) filter.status = status;
\* ("-": no status in the query); the documents the filter matches
TaskFilter(status) ==
  {i \in DOMAIN tasks :
     tasks[i].isActive /\ (status = "-" \/ tasks[i].status = status)}

\* .sort("-createdAt"): newest first
Reverse(s) == [k \in 1 .. Len(s) |-> s[Len(s) + 1 - k]]

\* app.get("/api/tasks") with the default page, limit and sort
GetTasksResponse(status) ==
  LET found == Reverse(FindTasks(TaskFilter(status)))
      page == SubSeq(found, 1, IF Len(found) < DefaultLimit THEN Len(found)
                               ELSE DefaultLimit)
      total == Cardinality(TaskFilter(status))
  IN  [route |-> "GET /api/tasks", status |-> 200, query |-> status,
       count |-> Len(page), total |-> total, data |-> page]

\* app.get("/api/tasks/:id")
GetTaskResponse(id) ==
  IF ~Found(id) \/ ~tasks[id].isActive
  THEN [route |-> "GET /api/tasks/:id", status |-> 404, id |-> id, data |-> 0]
  ELSE [route |-> "GET /api/tasks/:id", status |-> 200, id |-> id, data |-> id]

GetTasks(status) ==
  /\ resp' = GetTasksResponse(status)
  /\ UNCHANGED <<tasks, users, teams, projects, tags, calls, jar, stash, now>>

GetTask(id) ==
  /\ resp' = GetTaskResponse(id)
  /\ UNCHANGED <<tasks, users, teams, projects, tags, calls, jar, stash, now>>

\* the request bodies of this specification: status and isActive, no
\* completedAt
StoreBodies ==
  {b \in Bodies : "completedAt" \notin b.has
                  /\ b.status \in {"To Do", "In Progress", "Completed"}}

\* status values of the list query: none, and two of the enum
StatusQueries == {"-", "To Do", "Completed"}

InitReads ==
  /\ tasks = <<>>
  /\ users = UserDocs
  /\ teams = TeamDocs
  /\ projects = ProjectDocs
  /\ tags = <<>>
  /\ calls = <<>>
  /\ jar = {}
  /\ stash = NoStash
  /\ now = Today * MsPerDay
  /\ resp = NoResp

NextReads ==
  \/ \E b \in StoreBodies : PostTask(b)
  \/ \E id \in 1 .. MaxTasks, b \in StoreBodies : PutTask(id, b)
  \/ \E id \in 1 .. MaxTasks : DeleteTask(id)
  \/ \E status \in StatusQueries : GetTasks(status)
  \/ \E id \in 1 .. MaxTasks : GetTask(id)
  \/ GetLastWeek
  \/ GetPending
  \/ \E g \in GroupByQueries : GetClosedTasks(g)

SpecReads == InitReads /\ [][NextReads]_vars

(***************************************************************************)
(* models/Tag.js and POST /api/tags, under concurrent requests.  A name is *)
(* the sequence of its character codes.  The handler makes two store       *)
(* round-trips, the lookup and the insert, and other requests run between  *)
(* them; the answer of each request is kept in its entry of calls.  The    *)
(* colour of a tag plays no part and is left out.                          *)
(***************************************************************************)
\* POST /api/tags requests made in a run
MaxTagCalls == 3

\* String.prototype.toLowerCase on the codes of A-Z
ToLowerCase(s) ==
  [k \in DOMAIN s |-> IF s[k] \in 65 .. 90 THEN s[k] + 32 ELSE s[k]]

\* body("name").trim(): blanks are dropped from both ends
RECURSIVE Trim(_)
Trim(s) ==
  IF s = <<>> THEN s
  ELSE IF Head(s) = 32 THEN Trim(Tail(s))
  ELSE IF s[Len(s)] = 32 THEN Trim(SubSeq(s, 1, Len(s) - 1))
  ELSE s

\* req.body.name: "a", "A", "b", "Ab", " aB" and a blank
TagNames == {<<97>>, <<65>>, <<98>>, <<65, 98>>, <<32, 97, 66>>, <<32>>}

\* new Tag({name}): the setters of the schema (trim, lowercase) and the
\* default of isActive
NewTag(name) == [name |-> ToLowerCase(Trim(name)), isActive |-> TRUE]

\* Tag.findOne({name, isActive: true}): the first match, 0 when none
FindOneTag(name) ==
  LET hits == {i \in DOMAIN tags : tags[i].name = name /\ tags[i].isActive}
  IN  IF hits = {} THEN 0 ELSE CHOOSE i \in hits : \A j \in hits : i <= j

\* faulty variant of the store: the collection has no unique index on name
DuplicateKeyUnindexed(name) == FALSE

\* the unique index on name (unique: true): an insert whose name some
\* document of the collection has, active or not, fails with code 11000
DuplicateKey(name) == \E i \in DOMAIN tags : tags[i].name = name

\* a request that has not been made yet
NoCall == [pc |-> "idle", body |-> <<>>, name |-> <<>>, status |-> 0,
           caught |-> "-"]

\* app.post("/api/tags"), up to and including Tag.findOne: the validation
\* chain (400), then the lookup (409), else on to Tag.create
TagLookup(p, body) ==
  /\ calls[p].pc = "idle"
  /\ LET trimmed == Trim(body)
         name == ToLowerCase(trimmed)
     IN  calls' =
           [calls EXCEPT ![p] =
              IF Len(trimmed) < 1 \/ Len(trimmed) > 30
              THEN [pc |-> "done", body |-> body, name |-> <<>>,
                    status |-> 400, caught |-> "validation"]
              ELSE IF FindOneTag(name) # 0
              THEN [pc |-> "done", body |-> body, name |-> name,
                    status |-> 409, caught |-> "lookup"]
              ELSE [pc |-> "create", body |-> body, name |-> name,
                    status |-> 0, caught |-> "-"]]
  /\ UNCHANGED <<tasks, users, teams, projects, tags, jar, stash, now, resp>>

\* app.post("/api/tags") from Tag.create on: 201, or the catch block, which
\* answers 409 for error.code 11000
TagCreate(p) ==
  /\ calls[p].pc = "create"
  /\ IF DuplicateKey(NewTag(calls[p].name).name)
     THEN /\ tags' = tags
          /\ calls' = [calls EXCEPT ![p].pc = "done", ![p].status = 409,
                                    ![p].caught = "index"]
     ELSE /\ tags' = Append(tags, NewTag(calls[p].name))
          /\ calls' = [calls EXCEPT ![p].pc = "done", ![p].status = 201]
  /\ UNCHANGED <<tasks, users, teams, projects, jar, stash, now, resp>>

\* the store outside the API: a tag is soft-deleted (no route of the server
\* does it; the lookup and the list filter on the flag)
DeactivateTag(i) ==
  /\ i \in DOMAIN tags /\ tags[i].isActive
  /\ tags' = [tags EXCEPT ![i].isActive = FALSE]
  /\ UNCHANGED <<tasks, users, teams, projects, calls, jar, stash, now, resp>>

InitTags ==
  /\ tasks = <<>>
  /\ users = UserDocs
  /\ teams = TeamDocs
  /\ projects = ProjectDocs
  /\ tags = <<>>
  /\ calls = [p \in 1 .. MaxTagCalls |-> NoCall]
  /\ jar = {}
  /\ stash = NoStash
  /\ now = Today * MsPerDay
  /\ resp = NoResp

NextTags ==
  \/ \E p \in 1 .. MaxTagCalls, body \in TagNames : TagLookup(p, body)
  \/ \E p \in 1 .. MaxTagCalls : TagCreate(p)
  \/ \E i \in 1 .. MaxTagCalls : DeactivateTag(i)

SpecTags == InitTags /\ [][NextTags]_vars

(***************************************************************************)
(* PUT and DELETE /api/tasks/:id under concurrent requests.  Each handler  *)
(* makes two store round-trips, Task.findById and Task.findByIdAndUpdate,  *)
(* and other requests run between them; calls holds each handler that is   *)
(* between its two round-trips.                                            *)
(***************************************************************************)
\* handlers that may be in progress at the same time
MaxTaskCalls == 2

\* the request bodies of this specification: empty, a status of the enum or
\* outside it, or isActive = true; with these a task is soft-deleted by
\* DELETE alone
RaceBodies ==
  {b \in Bodies :
     /\ "completedAt" \notin b.has
     /\ Cardinality(b.has) <= 1
     /\ b.status \in {"To Do", "Completed", "Done"}
     /\ b.isActive}

\* a handler slot with no request in progress
IdleCall == [pc |-> "idle", id |-> 0,
             body |-> [has |-> {}, status |-> "To Do", completedAt |-> NoDate,
                       isActive |-> TRUE]]

\* app.put("/api/tasks/:id"), first round-trip: Task.findById and the
\* isActive test; 404 ends the request
PutTaskFind(p, id, b) ==
  /\ calls[p].pc = "idle"
  /\ IF ~Found(id) \/ ~tasks[id].isActive
     THEN /\ resp' = [route |-> "PUT /api/tasks/:id", status |-> 404]
          /\ calls' = calls
     ELSE /\ resp' = resp
          /\ calls' = [calls EXCEPT ![p] = [pc |-> "put", id |-> id,
                                            body |-> b]]
  /\ UNCHANGED <<tasks, users, teams, projects, tags, jar, stash, now>>

\* app.put("/api/tasks/:id"), second round-trip:
\* Task.findByIdAndUpdate(req.params.id, req.body, {runValidators}); the
\* query is by _id alone
PutTaskUpdate(p) ==
  /\ calls[p].pc = "put"
  /\ IF ValidBody(calls[p].body)
     THEN /\ tasks' = [tasks EXCEPT ![calls[p].id] =
                         ApplyUpdate(tasks[calls[p].id], calls[p].body)]
          /\ resp' = [route |-> "PUT /api/tasks/:id", status |-> 200]
     ELSE /\ tasks' = tasks
          /\ resp' = [route |-> "PUT /api/tasks/:id", status |-> 500]
  /\ calls' = [calls EXCEPT ![p] = IdleCall]
  /\ UNCHANGED <<users, teams, projects, tags, jar, stash, now>>

\* app.delete("/api/tasks/:id"), first round-trip
DeleteTaskFind(p, id) ==
  /\ calls[p].pc = "idle"
  /\ IF ~Found(id) \/ ~tasks[id].isActive
     THEN /\ resp' = [route |-> "DELETE /api/tasks/:id", status |-> 404]
          /\ calls' = calls
     ELSE /\ resp' = resp
          /\ calls' = [calls EXCEPT ![p] = [pc |-> "delete", id |-> id,
                                            body |-> IdleCall.body]]
  /\ UNCHANGED <<tasks, users, teams, projects, tags, jar, stash, now>>

\* app.delete("/api/tasks/:id"), second round-trip:
\* Task.findByIdAndUpdate(req.params.id, { isActive: false })
DeleteTaskUpdate(p) ==
  /\ calls[p].pc = "delete"
  /\ tasks' = [tasks EXCEPT ![calls[p].id].isActive = FALSE]
  /\ resp' = [route |-> "DELETE /api/tasks/:id", status |-> 200]
  /\ calls' = [calls EXCEPT ![p] = IdleCall]
  /\ UNCHANGED <<users, teams, projects, tags, jar, stash, now>>

InitRace ==
  /\ tasks = <<>>
  /\ users = UserDocs
  /\ teams = TeamDocs
  /\ projects = ProjectDocs
  /\ tags = <<>>
  /\ calls = [p \in 1 .. MaxTaskCalls |-> IdleCall]
  /\ jar = {}
  /\ stash = NoStash
  /\ now = Today * MsPerDay
  /\ resp = NoResp

NextRace ==
  \/ \E b \in RaceBodies : PostTask(b)
  \/ \E p \in 1 .. MaxTaskCalls, id \in 1 .. MaxTasks, b \in RaceBodies :
       PutTaskFind(p, id, b)
  \/ \E p \in 1 .. MaxTaskCalls : PutTaskUpdate(p)
  \/ \E p \in 1 .. MaxTaskCalls, id \in 1 .. MaxTasks : DeleteTaskFind(p, id)
  \/ \E p \in 1 .. MaxTaskCalls : DeleteTaskUpdate(p)

SpecRace == InitRace /\ [][NextRace]_vars

(***************************************************************************)
(* C1, C2: completedAt and status                                          *)
(***************************************************************************)
\* C1: in every reachable state of the task store every task has completedAt
\* set if and only if its status is Completed.
CompletedAtIffCompleted ==
  \A id \in DOMAIN tasks :
    (tasks[id].completedAt # NoDate) <=> (tasks[id].status = "Completed")

\* C2: completedAt follows the status history of a stored task.  A write
\* that moves its status to Completed leaves completedAt equal to the time of
\* that write; a write under which the status stays Completed leaves
\* completedAt as it was; a write that moves the status away from Completed
\* clears completedAt.  (Re-completion is the first case again, so the second
\* completion's time is the one kept.)
CompletedAtFollowsStatus ==
  [][ \A id \in DOMAIN tasks :
        LET old == tasks[id]
            new == tasks'[id]
        IN  /\ (old.status # "Completed" /\ new.status = "Completed")
                 => new.completedAt = now
            /\ (old.status = "Completed" /\ new.status = "Completed")
                 => new.completedAt = old.completedAt
            /\ (old.status = "Completed" /\ new.status # "Completed")
                 => new.completedAt = NoDate ]_vars

(***************************************************************************)
(* C3 - C7: the gate, logout and refresh                                   *)
(***************************************************************************)
\* the clock of the exchange, in seconds, is at or past the token's exp
ExpiredAt(tok, t) == (t \div MsPerSec) >= tok.exp

\* C3: on every access-gated route, a request whose access_token cookie is
\* absent, badly signed, signed with the refresh secret or expired gets 403
\* and its handler does not run; a handler that ran was given the {id,
\* username} of a verified token; and the exchange sets no cookie.
GateHolds ==
  resp.route \in GatedRoutes =>
    LET tok == resp.req.access_token
        rejected == \/ tok = NoToken
                    \/ tok.sig = "bad"
                    \/ tok.sig = "REFRESH_TOKEN_SECRET"
                    \/ ExpiredAt(tok, resp.at)
    IN  /\ rejected => (resp.status = 403 /\ ~resp.ran)
        /\ resp.ran => /\ ~rejected
                       /\ resp.user = [id |-> tok.id, username |-> tok.username]
        /\ resp.cookies = <<>>

\* C3 witness: a gated route answered 403, handler not run, to a correctly
\* signed access token presented after its expiry
GateRejectsExpired ==
  /\ resp.route \in GatedRoutes
  /\ resp.req.access_token.sig = "JWT_SECRET"
  /\ ExpiredAt(resp.req.access_token, resp.at)
  /\ resp.status = 403 /\ ~resp.ran

\* C4: after POST /api/auth/logout the browser holds neither cookie; while it
\* holds none, every gated request it makes gets 403 and its refresh gets
\* 401 without cookies; and only a successful login or register gives it
\* cookies again.
LogoutEndsSession ==
  [][ /\ resp'.route = LogoutRoute => jar' = {}
      /\ (jar = {} /\ resp'.via = "browser" /\ resp'.route \in GatedRoutes)
           => (resp'.status = 403 /\ ~resp'.ran)
      /\ (jar = {} /\ resp'.via = "browser" /\ resp'.route = RefreshRoute)
           => (resp'.status = 401 /\ resp'.cookies = <<>>)
      /\ (jar = {} /\ jar' # {})
           => (resp'.route \in {LoginRoute, RegisterRoute}
               /\ resp'.status \in {200, 201}) ]_vars

\* C4 witness: a gated browser request refused with 403 while the tokens the
\* browser had been handed are still within the access cookie's Max-Age, so
\* that only the logout can have emptied the store
RefusedAfterLogout ==
  /\ resp.via = "browser" /\ resp.route \in GatedRoutes
  /\ resp.status = 403
  /\ jar = {} /\ stash # NoStash
  /\ resp.at < stash.at + AccessMaxAge

\* C5: a successful refresh sets both cookies to new tokens whose iat is the
\* time of the refresh and whose exp is 15 minutes and 7 days after it; and
\* when the pair the presented refresh token came with was issued at least
\* one second earlier, the new access token differs from that pair's.
RefreshIssuesFreshPair ==
  [][ (resp'.route = RefreshRoute /\ resp'.status = 200) =>
        LET cs == resp'.cookies
            sec == now \div 1000
        IN  /\ Len(cs) = 2
            /\ cs[1].name = "access_token" /\ cs[2].name = "refresh_token"
            /\ cs[1].value.sig = "JWT_SECRET"
            /\ cs[2].value.sig = "REFRESH_TOKEN_SECRET"
            /\ cs[1].value.iat = sec /\ cs[1].value.exp = sec + 900
            /\ cs[2].value.iat = sec /\ cs[2].value.exp = sec + 604800
            /\ (resp'.req.refresh_token = stash.refreshToken
                /\ now >= stash.at + 1000)
                 => cs[1].value # stash.accessToken ]_vars

\* C5 witness: a refresh that succeeded a second or more after the pair it
\* presents was issued
RefreshedLater ==
  /\ resp.route = RefreshRoute /\ resp.status = 200
  /\ resp.req.refresh_token = stash.refreshToken
  /\ resp.at >= stash.at + 1000

\* C6: a refresh whose token is missing, badly signed, signed with the access
\* secret or expired is answered 401 or 403; one whose token verifies but
\* whose user id is not found is answered 401; no failing case sets a cookie.
RefreshFailsAsAuthFailure ==
  resp.route = RefreshRoute =>
    LET tok == resp.req.refresh_token
        rejected == \/ tok = NoToken
                    \/ tok.sig # "REFRESH_TOKEN_SECRET"
                    \/ ExpiredAt(tok, resp.at)
    IN  /\ rejected => (resp.status \in {401, 403} /\ resp.cookies = <<>>)
        /\ (~rejected /\ ~UserFound(tok.id))
             => (resp.status = 401 /\ resp.cookies = <<>>)

\* C7: a refresh carrying an unexpired refresh token of a user whose record
\* is removed or has isActive = false fails and sets no cookie.
InactiveUserCannotRefresh ==
  resp.route = RefreshRoute =>
    LET tok == resp.req.refresh_token
    IN  ( /\ tok.sig = "REFRESH_TOKEN_SECRET"
          /\ ~ExpiredAt(tok, resp.at)
          /\ (~UserFound(tok.id) \/ ~users[tok.id].isActive) )
          => (resp.status # 200 /\ resp.cookies = <<>>)

(***************************************************************************)
(* C8 - C10: the reports                                                   *)
(***************************************************************************)
RECURSIVE SumOf(_, _)
SumOf(f, S) ==
  IF S = {} THEN 0
  ELSE LET x == CHOOSE x \in S : TRUE IN f[x] + SumOf(f, S \ {x})

\* C8: dailyStats has exactly the 7 keys today-6 .. today, oldest first; the
\* returned tasks and totalCompleted are exactly the active Completed tasks
\* with completedAt in [startOfDay(today-6), endOfDay(today)]; and
\* totalCompleted is the sum of the dailyStats values.
LastWeekCoversSevenDays ==
  resp.route = "GET /api/reports/last-week" =>
    LET data == resp.data
        today == now \div MsPerDay
        window == {i \in DOMAIN tasks :
                     /\ tasks[i].isActive /\ tasks[i].status = "Completed"
                     /\ tasks[i].completedAt # NoDate
                     /\ tasks[i].completedAt >= (today - 6) * MsPerDay
                     /\ tasks[i].completedAt <= today * MsPerDay + MsPerDay - 1}
        counts == [k \in 1 .. Len(data.dailyStats) |-> data.dailyStats[k].count]
    IN  /\ Len(data.dailyStats) = 7
        /\ \A k \in 1 .. 7 : data.dailyStats[k].date = today - 7 + k
        /\ {data.tasks[j] : j \in 1 .. Len(data.tasks)} = window
        /\ Len(data.tasks) = Cardinality(window)
        /\ data.totalCompleted = Cardinality(window)
        /\ data.totalCompleted = SumOf(counts, DOMAIN counts)

\* C9: closed-tasks over the active Completed tasks.  By team or project
\* (team when groupBy is absent) each bucket holds the number of tasks with
\* that resolved name, "Unassigned" those whose reference does not resolve,
\* and the buckets sum to totalCompleted; by owner each bucket holds the
\* number of owner links to users of that name and the buckets sum to the
\* number of owner links (an owner being a reference that resolves to a
\* user); any other groupBy gives an empty map, with success and the right
\* totalCompleted.
ClosedTasksCounts ==
  resp.route = "GET /api/reports/closed-tasks" =>
    LET data == resp.data
        stats == data.stats
        done == {i \in DOMAIN tasks :
                   tasks[i].isActive /\ tasks[i].status = "Completed"}
        values == [k \in 1 .. Len(stats) |-> stats[k].value]
        RefName(store, ref) ==
          IF ref \in DOMAIN store THEN store[ref].name ELSE "Unassigned"
        Bucket(name) ==
          IF \E k \in 1 .. Len(stats) : stats[k].key = name
          THEN stats[CHOOSE k \in 1 .. Len(stats) : stats[k].key = name].value
          ELSE 0
        links == {<<i, k>> \in done \X (1 .. 2) :
                    /\ k \in DOMAIN tasks[i].owners
                    /\ tasks[i].owners[k] \in DOMAIN users}
        names == {"Unassigned"}
                   \cup {teams[t].name : t \in DOMAIN teams}
                   \cup {projects[q].name : q \in DOMAIN projects}
                   \cup {users[u].name : u \in DOMAIN users}
    IN  /\ resp.status = 200
        /\ data.totalCompleted = Cardinality(done)
        /\ \A k, l \in 1 .. Len(stats) : stats[k].key = stats[l].key => k = l
        /\ \A k \in 1 .. Len(stats) : stats[k].key \in names /\ stats[k].value >= 1
        /\ data.groupBy = "team" =>
             /\ \A name \in names :
                  Bucket(name) = Cardinality({i \in done :
                                   RefName(teams, tasks[i].team) = name})
             /\ SumOf(values, DOMAIN values) = data.totalCompleted
        /\ data.groupBy = "project" =>
             /\ \A name \in names :
                  Bucket(name) = Cardinality({i \in done :
                                   RefName(projects, tasks[i].project) = name})
             /\ SumOf(values, DOMAIN values) = data.totalCompleted
        /\ data.groupBy = "owner" =>
             /\ \A name \in names :
                  Bucket(name) =
                    Cardinality({l \in links :
                       users[tasks[l[1]].owners[l[2]]].name = name})
             /\ SumOf(values, DOMAIN values) = Cardinality(links)
        /\ data.groupBy \notin {"team", "project", "owner"} => stats = <<>>

\* C10: pending over the active tasks whose status is not Completed:
\* totalPendingTasks is their number and totalPendingDays the sum of their
\* timeToComplete; statusStats has one entry per status that occurs among
\* them, none for Completed, with its count and totalDays, and these sum to
\* the two totals; averageDaysPerTask is totalPendingDays / totalPendingTasks
\* when there is a pending task and 0 when there is none.
PendingRollup ==
  resp.route = "GET /api/reports/pending" =>
    LET data == resp.data
        pending == {i \in DOMAIN tasks :
                      tasks[i].isActive /\ tasks[i].status # "Completed"}
        days == [i \in DOMAIN tasks |-> tasks[i].timeToComplete]
        with(st) == {i \in pending : tasks[i].status = st}
        stats == data.statusStats
        counts == [st \in DOMAIN stats |-> stats[st].count]
        totals == [st \in DOMAIN stats |-> stats[st].totalDays]
        avg == data.averageDaysPerTask
    IN  /\ data.totalPendingTasks = Cardinality(pending)
        /\ data.totalPendingDays = SumOf(days, pending)
        /\ DOMAIN stats = {tasks[i].status : i \in pending}
        /\ "Completed" \notin DOMAIN stats
        /\ \A st \in DOMAIN stats :
             /\ stats[st].count = Cardinality(with(st))
             /\ stats[st].totalDays = SumOf(days, with(st))
        /\ SumOf(counts, DOMAIN stats) = data.totalPendingTasks
        /\ SumOf(totals, DOMAIN stats) = data.totalPendingDays
        /\ avg.den # 0
        /\ pending # {} =>
             avg.num * Cardinality(pending) = SumOf(days, pending) * avg.den
        /\ pending = {} => avg.num = 0

\* C10 witness: a pending report over three pending tasks of two statuses
\* whose days do not divide evenly, beside tasks it must leave out
PendingOfMixedStore ==
  /\ resp.route = "GET /api/reports/pending"
  /\ resp.data.totalPendingTasks = 3
  /\ resp.data.totalPendingDays = 2 + 1 + 2
  /\ Cardinality(DOMAIN resp.data.statusStats) = 2

(***************************************************************************)
(* C11: soft delete                                                        *)
(***************************************************************************)
\* the ids a response lists
Listed(ids) == {ids[k] : k \in 1 .. Len(ids)}

\* C11: DELETE /api/tasks/:id removes no record (the task ids of the store
\* only grow) and changes nothing but isActive, which it sets to false; and
\* a task with isActive = false is not returned by GET /api/tasks, is 404 on
\* GET /api/tasks/:id, and is neither listed nor counted by the last-week,
\* pending and closed-tasks reports.
SoftDelete ==
  /\ [][ /\ Len(tasks') >= Len(tasks)
         /\ resp'.route = "DELETE /api/tasks/:id" =>
              /\ Len(tasks') = Len(tasks)
              /\ \A i \in DOMAIN tasks :
                   \/ tasks'[i] = tasks[i]
                   \/ /\ tasks[i].isActive
                      /\ tasks'[i] = [tasks[i] EXCEPT !.isActive = FALSE]
              /\ resp'.status = 200 => tasks' # tasks ]_vars
  /\ [] LET active == {i \in DOMAIN tasks : tasks[i].isActive}
            done == {i \in active : tasks[i].status = "Completed"}
            pending == {i \in active : tasks[i].status # "Completed"}
            days == [i \in DOMAIN tasks |-> tasks[i].timeToComplete]
        IN  /\ resp.route = "GET /api/tasks" =>
                 /\ Listed(resp.data) \subseteq active
                 /\ resp.count <= Cardinality(active)
                 /\ resp.total <= Cardinality(active)
            /\ resp.route = "GET /api/tasks/:id" =>
                 /\ resp.status = 200 => resp.data \in active
                 /\ resp.id \notin active => resp.status = 404
            /\ resp.route = "GET /api/reports/last-week" =>
                 /\ Listed(resp.data.tasks) \subseteq done
                 /\ resp.data.totalCompleted <= Cardinality(done)
                 /\ \A k \in DOMAIN resp.data.dailyStats :
                      resp.data.dailyStats[k].count <=
                        Cardinality({i \in done :
                          FormatDate(tasks[i].completedAt) =
                            resp.data.dailyStats[k].date})
            /\ resp.route = "GET /api/reports/pending" =>
                 /\ resp.data.totalPendingTasks = Cardinality(pending)
                 /\ resp.data.totalPendingDays = SumOf(days, pending)
                 /\ \A st \in DOMAIN resp.data.statusStats :
                      resp.data.statusStats[st].count =
                        Cardinality({i \in pending : tasks[i].status = st})
            /\ resp.route = "GET /api/reports/closed-tasks" =>
                 /\ resp.data.totalCompleted = Cardinality(done)
                 /\ \A k \in DOMAIN resp.data.stats :
                      resp.data.stats[k].value <=
                        Cardinality({<<i, o>> \in done \X (1 .. 2) :
                                       o \in DOMAIN tasks[i].owners})

\* C11 witness: the list of all tasks, asked of a store that holds a
\* completed task with isActive = false beside an active one, returns the
\* active one alone
InactiveTaskLeftOut ==
  /\ resp.route = "GET /api/tasks" /\ resp.query = "-"
  /\ Len(tasks) = 2
  /\ ~tasks[1].isActive /\ tasks[1].status = "Completed"
  /\ tasks[2].isActive
  /\ resp.data = <<2>> /\ resp.total = 1

(***************************************************************************)
(* C12: duplicate registration                                             *)
(***************************************************************************)
\* the ids of the user documents that hold the username / the email
HoldingUsername(u) ==
  {i \in DOMAIN users : ~users[i].removed /\ users[i].username = u}

HoldingEmail(e) ==
  {i \in DOMAIN users : ~users[i].removed /\ users[i].email = e}

\* C12: a register request whose username or email is held by an existing
\* user fails, creates no user and sets no cookie; the message "Username
\* already exists" is given only when the username is held and "Email
\* already exists" only when the email is held, and a request that passes the
\* field checks and collides gets one of the two; and no two users of the
\* store share a username or an email.
DuplicateRegistrationFails ==
  /\ [][ resp'.route = RegisterRoute =>
           LET u == resp'.form.username
               e == resp'.form.email
               held == HoldingUsername(u) # {} \/ HoldingEmail(e) # {}
           IN  /\ held => /\ resp'.status \in 400 .. 599
                          /\ users' = users
                          /\ resp'.cookies = <<>>
                          /\ jar' = jar
               /\ resp'.message = "Username already exists"
                    => HoldingUsername(u) # {}
               /\ resp'.message = "Email already exists"
                    => HoldingEmail(e) # {}
               /\ (held /\ resp'.message \notin
                             {"Please provide all required fields",
                              "Please provide a valid email address",
                              "Password must be at least 8 characters long"})
                    => resp'.message \in {"Username already exists",
                                          "Email already exists"} ]_vars
  /\ [] \A i, j \in DOMAIN users :
          (i # j /\ ~users[i].removed /\ ~users[j].removed)
            => /\ users[i].username # users[j].username
               /\ users[i].email # users[j].email

\* C12 witness: with two users in the store, a registration whose username
\* is the second user's and whose email is the first user's was refused
\* with the message about the email
RefusedOnBothFields ==
  /\ resp.route = RegisterRoute /\ resp.status = 400
  /\ Len(users) = 2
  /\ resp.form.username = users[2].username
  /\ resp.form.email = users[1].email
  /\ resp.message = "Email already exists"

(***************************************************************************)
(* C13: tag names                                                          *)
(***************************************************************************)
\* two names are equal ignoring case
SameIgnoringCase(a, b) == ToLowerCase(a) = ToLowerCase(b)

\* C13: under any interleaving of POST /api/tags requests, stored names are
\* lowercase, no two stored tags have names equal ignoring case, and of the
\* answered requests for one name (in any letter case) at most one got 201
\* and every other one got 409, none 500, whether the lookup or the unique
\* index caught it; a 201 has its tag in the store.
TagNamesUnique ==
  LET done == {p \in DOMAIN calls : calls[p].pc = "done"}
      named == {p \in done : calls[p].status # 400}
  IN  /\ \A i \in DOMAIN tags : tags[i].name = ToLowerCase(tags[i].name)
      /\ \A i, j \in DOMAIN tags :
           SameIgnoringCase(tags[i].name, tags[j].name) => i = j
      /\ \A p \in done : /\ calls[p].status \in {201, 400, 409}
                         /\ calls[p].status = 400 => Trim(calls[p].body) = <<>>
      /\ \A p \in named :
           /\ calls[p].status = 201 =>
                \E i \in DOMAIN tags :
                  SameIgnoringCase(tags[i].name, Trim(calls[p].body))
           /\ \A q \in named :
                (p # q /\ calls[p].status = 201
                 /\ SameIgnoringCase(Trim(calls[p].body), Trim(calls[q].body)))
                  => calls[q].status = 409

\* C13 witness: two requests for one name in different letter cases both
\* passed the lookup; one created the tag and the other was answered 409
\* from the duplicate-key error, while a third was answered 409 by the lookup
TagRaceSettledByIndex ==
  \E p, q, r \in DOMAIN calls :
    /\ calls[p].pc = "done" /\ calls[p].status = 201
    /\ calls[q].pc = "done" /\ calls[q].status = 409
    /\ calls[q].caught = "index"
    /\ calls[r].pc = "done" /\ calls[r].status = 409
    /\ calls[r].caught = "lookup"
    /\ calls[p].body # calls[q].body
    /\ calls[p].name = calls[q].name /\ calls[p].name = calls[r].name
    /\ \A i \in DOMAIN tags : tags[i].isActive

(***************************************************************************)
(* C14: soft deletion is permanent                                         *)
(***************************************************************************)
\* C14: under any interleaving of requests, a task whose isActive is false
\* is never changed again by a PUT or a DELETE: it stays inactive and keeps
\* every field, also when a DELETE lands between the two round-trips of a
\* PUT, whatever the PUT's body (isActive = true included); and a PUT or
\* DELETE that finds the task inactive answers 404.
DeletedStaysDeleted ==
  [][ \A id \in DOMAIN tasks :
        ~tasks[id].isActive => tasks'[id] = tasks[id] ]_vars

====
